---------------------------- MODULE Spec2Model ----------------------------
(***************************************************************************)
(* RagSystem (src/agent_rag/rag_system.py): construction, the query        *)
(* pipeline retrieve -> rerank -> assess -> fallback retry -> generate ->  *)
(* log, and the pure functions it is built from.                           *)
(*                                                                         *)
(* Conventions.                                                            *)
(*  - A relevance score is an integer number of tenths (5 is 0.5), the     *)
(*    mean and the quality score are exact fractions [num, den] of tenths. *)
(*    Binary floating-point rounding is not modelled.                      *)
(*  - A query string is the sequence of its whitespace-separated tokens.   *)
(*  - A text whose content is opaque (an answer, a diagnostic) is a record *)
(*    [kind, detail]; StrLen gives its length in characters.               *)
(*  - Each step of query() that ends at a call to an external service      *)
(*    (index, reranker, generation, log file) is one action; its outcome   *)
(*    is drawn with \E from what the service can do, a raise included.     *)
(***************************************************************************)
EXTENDS Integers, Sequences, FiniteSets, TLC

\* ------------------------------------------------------------------ bounds

\* chunks the index may hold
MaxDocs == 2
\* query() calls in one run
MaxQueries == 1
\* length of a score sequence handed to assess_response_quality on its own
MaxLen == 3
\* process_documents calls of one run of the ingestion model
MaxRuns == 2

\* ------------------------------------------------------- program constants

\* rerank_documents(..., top_k=4)
TopK == 4
\* max(n_results * 2, 8)
SearchMin == 8
\* [0.5] * len(selected_docs), in tenths
NeutralScore == 5
\* max_confidence > 0.1, in tenths
SufficientThreshold == 1
\* quality_score > 0.7, in tenths
HighThreshold == 7
\* quality_score > 0.4, in tenths
MediumThreshold == 4
\* len(word) > 3
MinWordLen == 3
\* key_words[:3]
MaxKeyWords == 3
\* len(chunk.page_content.strip()) > 50 of process_documents
MinChunkLen == 50
\* batch_size of process_documents
BatchSize == 100
\* name[:63] of sanitize_collection_name
NameMax == 63
\* len(name) < 3 of sanitize_collection_name
NameMin == 3

\* --------------------------------------------------------------- inputs

\* scores the cross-encoder may give one (query, document) pair, in tenths:
\* raw logits, so below 0 and above 1 too
ScoreVals == {-3, 1, 5, 12}
\* scores of the score sequences assess_response_quality is applied to on its
\* own: every threshold (0.1, 0.4, 0.7), both sides of each
AssessScoreVals == {-5, 0, 1, 2, 4, 7, 8, 10, 12}
\* n_results arguments of query()
NResultsChoices == {1, 5}
\* messages of the exception a failed generation call raises
GenerationErrors == {"Connection error.", "Request timed out."}
\* contents the generation service may return
Answers == {"grounded"}

\* The token of a run of extra whitespace in a query string.
WS == " "

\* Queries: rewrite equal to the query; rewrite to the sector word; no word
\* survives the filter; nothing but whitespace.
Queries ==
  { <<"vendas">>,
    <<"qual", "vendas", "salario">>,
    <<"qual", "pib">>,
    <<WS>> }

\* the lines interactive_session may read that strip() leaves empty
BlankLines == {<<>>, <<WS>>}

\* ------------------------------------------------------------ arithmetic

Min(a, b) == IF a <= b THEN a ELSE b

Max(a, b) == IF a >= b THEN a ELSE b

RECURSIVE SumSeq(_)
SumSeq(s) == IF s = <<>> THEN 0 ELSE Head(s) + SumSeq(Tail(s))

RECURSIVE MaxSeq(_)
MaxSeq(s) ==
  IF Len(s) = 1 THEN s[1] ELSE Max(Head(s), MaxSeq(Tail(s)))

\* fractions of tenths, den > 0
Frac(n, d) == [num |-> n, den |-> d]

\* a > t/10, t in tenths
FracGt(a, t) == a.num > t * a.den

Take(s, k) == SubSeq(s, 1, Min(k, Len(s)))


\* ------------------------------------------------------------------ texts

NoError == "None"

\* error_message of query() on an instance whose initialisation failed
NotInitializedMsg == "Sistema RAG nao inicializado. Verifique ChromaDB e embeddings."

\* len(str(e)) of the generation failures
ErrLen(e) ==
  CASE e = "Connection error." -> 17
    [] e = "Request timed out." -> 18
    [] e = NotInitializedMsg -> 62
    [] OTHER -> 0

Text(kind, detail) == [kind |-> kind, detail |-> detail]

\* response.choices[0].message.content
AnswerText(a) == Text("answer", a)

\* generate_response on an instance that is not initialised
NotWorkingText == Text("not_working", "")

\* f"Erro ao processar sua consulta: {str(e)}. Verifique se a API ..."
GenerationErrorText(e) == Text("generation_error", e)

\* the "Sistema de busca indisponivel" block of query()
SearchUnavailableText == Text("search_unavailable", "")

\* f"Erro interno do sistema: {error_message}. Tente novamente."
InternalErrorText(msg) == Text("internal_error", msg)

\* len(str(response))
StrLen(t) ==
  CASE t.kind = "answer" -> (IF t.detail = "grounded" THEN 240 ELSE 131)
    [] t.kind = "not_working" -> 84
    [] t.kind = "generation_error" -> 32 + ErrLen(t.detail) + 61
    [] t.kind = "search_unavailable" -> 556
    [] t.kind = "internal_error" -> 25 + ErrLen(t.detail) + 18
    [] OTHER -> 0

\* "ChromaDB" in str(e) or "embedding" in str(e).lower()
MentionsSearchBackend(msg) == msg = NotInitializedMsg

\* ------------------------------------------------------ _extract_key_terms

StopWords == {"como", "qual", "onde", "quando", "porque"}

\* word.lower()
Lower(w) ==
  CASE w = "Vendas" -> "vendas"
    [] OTHER -> w

\* len(word)
WordLen(w) ==
  CASE w = "vendas" -> 6
    [] w = "qual" -> 4
    [] w = "salario" -> 7
    [] w = "emprego" -> 7
    [] w = "pib" -> 3
    [] w = "sp" -> 2
    [] OTHER -> 5

\* any(kw in word for kw in automotive_keywords)
IsAutomotive(w) == w \in {"vendas", "sp"}

RECURSIVE SelectSeq2(_, _)
SelectSeq2(s, keep) ==
  IF s = <<>> THEN <<>>
  ELSE IF Head(s) \in keep THEN <<Head(s)>> \o SelectSeq2(Tail(s), keep)
       ELSE SelectSeq2(Tail(s), keep)

Range(s) == {s[i] : i \in 1..Len(s)}

\* query.lower().split()
SplitLower(query) ==
  LET toks == SelectSeq2(query, Range(query) \ {WS})
  IN [i \in 1..Len(toks) |-> Lower(toks[i])]

_extract_key_terms(query) ==
  LET words == SplitLower(query)
      key_words == SelectSeq2(words,
                     {w \in Range(words) :
                        WordLen(w) > MinWordLen /\ w \notin StopWords})
      auto_words == SelectSeq2(key_words,
                      {w \in Range(key_words) : IsAutomotive(w)})
  IN IF auto_words # <<>> THEN auto_words
     ELSE Take(key_words, MaxKeyWords)

\* -------------------------------------------------------- rerank_documents

\* position at which a pair goes into a list sorted by score, highest first,
\* after every pair whose score is not lower (list.sort is stable)
\* the sort without reverse=True
RECURSIVE InsertAscending(_, _)
InsertAscending(sorted, pair) ==
  IF sorted = <<>> THEN <<pair>>
  ELSE IF Head(sorted).score <= pair.score
       THEN <<Head(sorted)>> \o InsertAscending(Tail(sorted), pair)
       ELSE <<pair>> \o sorted

RECURSIVE InsertDesc(_, _)
InsertDesc(sorted, pair) ==
  IF sorted = <<>> THEN <<pair>>
  ELSE IF Head(sorted).score >= pair.score
       THEN <<Head(sorted)>> \o InsertDesc(Tail(sorted), pair)
       ELSE <<pair>> \o sorted

RECURSIVE SortDesc(_)
SortDesc(pairs) ==
  IF pairs = <<>> THEN <<>>
  ELSE InsertDesc(SortDesc(SubSeq(pairs, 1, Len(pairs) - 1)), pairs[Len(pairs)])

Evidence(docs, scores) == [documents |-> docs, confidence_scores |-> scores]

\* a pass-through that forgets the slice
PassThroughUntruncated(documents, top_k) ==
  Evidence(documents, [i \in 1..Len(documents) |-> NeutralScore])

\* documents[:top_k] with the dummy score
PassThrough(documents, top_k) ==
  LET selected == Take(documents, top_k)
  IN Evidence(selected, [i \in 1..Len(selected) |-> NeutralScore])

\* what self.reranker.predict(pairs) may do with n pairs: raise, or give each
\* pair a score
PredictOutcomes(n) ==
  {[raised |-> TRUE, scores |-> <<>>]} \cup
  {[raised |-> FALSE, scores |-> sc] : sc \in [1..n -> ScoreVals]}

\* whether rerank_documents gets as far as self.reranker.predict(pairs)
CallsPredict(documents, enabled, has_reranker) ==
  documents # <<>> /\ enabled /\ has_reranker

rerank_documents(documents, top_k, enabled, has_reranker, predict) ==
  IF documents = <<>> THEN Evidence(<<>>, <<>>)
  ELSE IF ~enabled \/ ~has_reranker THEN PassThrough(documents, top_k)
  ELSE IF predict.raised THEN PassThrough(documents, top_k)
  ELSE LET pairs == [i \in 1..Len(documents) |->
                       [doc |-> documents[i], score |-> predict.scores[i]]]
           top == Take(SortDesc(pairs), top_k)
       IN Evidence([i \in 1..Len(top) |-> top[i].doc],
                   [i \in 1..Len(top) |-> top[i].score])

\* ------------------------------------------------- assess_response_quality

Zero == Frac(0, 1)

\* thresholds that take the value on the threshold into the upper band
RecommendInclusive(has_sufficient_data, quality_score) ==
  IF ~has_sufficient_data THEN "ask_clarification"
  ELSE IF quality_score.num >= HighThreshold * quality_score.den
       THEN "high_confidence"
  ELSE IF FracGt(quality_score, MediumThreshold) THEN "medium_confidence"
  ELSE "low_confidence"

Recommend(has_sufficient_data, quality_score) ==
  IF ~has_sufficient_data THEN "ask_clarification"
  ELSE IF FracGt(quality_score, HighThreshold) THEN "high_confidence"
  ELSE IF FracGt(quality_score, MediumThreshold) THEN "medium_confidence"
  ELSE "low_confidence"

\* the metrics and the recommendation of a sequence of scores
AssessScores(documents, valid_scores) ==
  LET avg_confidence == Frac(SumSeq(valid_scores), Len(valid_scores))
      max_confidence == MaxSeq(valid_scores)
      has_sufficient_data ==
        Len(documents) >= 1 /\ max_confidence > SufficientThreshold
      quality_score ==
        Frac(avg_confidence.num + max_confidence * avg_confidence.den,
             2 * avg_confidence.den)
  IN [quality_score |-> quality_score,
      has_sufficient_data |-> has_sufficient_data,
      recommendation |-> Recommend(has_sufficient_data, quality_score),
      avg_confidence |-> avg_confidence,
      max_confidence |-> Frac(max_confidence, 1)]

\* an assessment without the early return for no documents: the scores
\* default to [0.0]
assess_without_early_return(documents, confidence_scores) ==
  AssessScores(documents,
               IF confidence_scores = <<>>
               THEN (IF documents = <<>> THEN <<0>>
                     ELSE [i \in 1..Len(documents) |-> 0])
               ELSE confidence_scores)

assess_response_quality(documents, confidence_scores) ==
  IF documents = <<>>
  THEN [quality_score |-> Zero, has_sufficient_data |-> FALSE,
        recommendation |-> "no_documents"]
  ELSE AssessScores(documents,
                    IF confidence_scores = <<>>
                    THEN [i \in 1..Len(documents) |-> 0]
                    ELSE confidence_scores)

\* an except branch that reports the failure as an empty search
SystemErrorAsNoDocuments ==
  [quality_score |-> Zero, has_sufficient_data |-> FALSE,
   recommendation |-> "no_documents"]

\* the quality_assessment of query()'s except branch
SystemErrorAssessment ==
  [quality_score |-> Zero, has_sufficient_data |-> FALSE,
   recommendation |-> "system_error"]


\* ------------------------------------------------------ retrieve_documents

\* what the index may do on one retrieval: collection.count() raises,
\* collection.query() raises (the embedding call is inside it), the result
\* holds no documents, or the nearest chunks come back in one of two orders
RetrievalOutcomes == {"count_raises", "query_raises", "no_result", "asc", "desc"}

NoDocuments == [documents |-> <<>>, distances |-> <<>>]

\* the chunks of an index of `count` chunks, nearest first
Nearest(count, outcome) ==
  [i \in 1..count |-> IF outcome = "asc" THEN i ELSE count + 1 - i]

\* a retrieval that sends the query to an empty collection too
IssuesQueryOnEmpty(initialized, count, outcome) ==
  initialized /\ outcome # "count_raises"

\* whether retrieve_documents gets as far as self.collection.query(...)
IssuesQuery(initialized, count, outcome) ==
  initialized /\ outcome # "count_raises" /\ count # 0

retrieve_documents(initialized, count, n, outcome) ==
  IF ~IssuesQuery(initialized, count, outcome) THEN NoDocuments
  ELSE IF outcome = "query_raises" THEN NoDocuments
  ELSE IF outcome = "no_result" THEN NoDocuments
  ELSE LET k == Min(n, count)
       IN [documents |-> Take(Nearest(count, outcome), k),
           distances |-> [i \in 1..k |-> i]]

\* whether the retrieval reached the index (collection.count())
ReachesIndex(initialized) == initialized

\* ---------------------------------------------------- search_with_fallback

\* a primary attempt that reranks and assesses whatever came back
AfterRetrieveAlwaysRerank(docs) == "rerank1"

\* if documents: (after the primary retrieval)
AfterRetrieve(docs) == IF docs # <<>> THEN "rerank1" ELSE "rewrite"

\* a search that goes on to the fallback whatever the assessment says
AfterAssessAlwaysFallback(qa) == "rewrite"

\* if quality_assessment["has_sufficient_data"]: return
AfterAssess(qa) == IF qa.has_sufficient_data THEN "post_search" ELSE "rewrite"

\* if key_terms != query:
AfterRewrite(terms, query) == IF terms # query THEN "retrieve2" ELSE "post_search"

\* a fallback that retrieves again until something comes back
AfterFallbackRetryAgain(docs) == IF docs # <<>> THEN "rerank2" ELSE "retrieve2"

\* a fallback whose result replaces the evidence even when it is empty
AfterFallbackAlwaysRerank(docs) == "rerank2"

\* if documents_fallback:
AfterFallback(docs) == IF docs # <<>> THEN "rerank2" ELSE "post_search"

\* ----------------------------------------------------------- _log_query

\* the rows of the file keep the columns response_length, num_documents and
\* rerank_enabled; the header row is the one of -1
Header == [response_length |-> -1, num_documents |-> -1,
           rerank_enabled |-> FALSE]

NoFile == [exists |-> FALSE, rows |-> <<>>]

\* a row whose response_length is taken from the query
LogRowOfQueryLength(query, text, num_docs, rerank_enabled) ==
  [response_length |-> Len(query),
   num_documents |-> num_docs, rerank_enabled |-> rerank_enabled]

LogRow(query, text, num_docs, rerank_enabled) ==
  [response_length |-> StrLen(text),
   num_documents |-> num_docs, rerank_enabled |-> rerank_enabled]

\* open(self.log_file, "a") and writerow; whatever it raises is swallowed
_log_query(logging, has_file_attr, file, row, write_ok) ==
  IF ~logging THEN file
  ELSE IF ~has_file_attr \/ ~write_ok THEN file
  ELSE [exists |-> TRUE, rows |-> Append(file.rows, row)]

\* a _log_query that turns logging off when it could not write, as
\* _init_logging does
LoggingOffAfterFailure(logging, has_file_attr, write_ok) ==
  logging /\ has_file_attr /\ write_ok

\* self.enable_logging after _log_query: the method assigns no field
LoggingAfterLog(logging, has_file_attr, write_ok) == logging

\* a logging step whose failure propagates out of query()
AfterLogUnguarded(write_ok) == IF write_ok THEN "done" ELSE "raised"

\* the try/except of query() around _log_query: nothing propagates
AfterLog(write_ok) == "done"

\* ---------------------------------------------------------------- query

\* a query() that does not check is_initialized
EntryPcUnchecked(initialized) == "retrieve1"

\* if not self.is_initialized: raise
EntryPc(initialized) == IF initialized THEN "retrieve1" ELSE "log"

\* the except branch of query(): the response for error_message
FallbackResponse(msg) ==
  IF MentionsSearchBackend(msg) THEN SearchUnavailableText
  ELSE InternalErrorText(msg)

\* generate_response; outcome: the generation call's answer or its failure
generate_response(initialized, outcome) ==
  IF ~initialized THEN NotWorkingText
  ELSE IF outcome.raised THEN GenerationErrorText(outcome.detail)
  ELSE AnswerText(outcome.detail)

GenerationOutcomes ==
  {[raised |-> TRUE, detail |-> e] : e \in GenerationErrors} \cup
  {[raised |-> FALSE, detail |-> a] : a \in Answers}

\* the dict query() returns
Result(query, text, docs, scores, qa, rerank_enabled, initialized, msg) ==
  LET base == [query |-> query, response |-> text,
               retrieved_documents |-> docs, confidence_scores |-> scores,
               num_documents |-> Len(docs), quality_assessment |-> qa,
               reranking_enabled |-> rerank_enabled,
               system_initialized |-> initialized]
  IN IF msg # NoError /\ msg # "" THEN base @@ [error |-> msg] ELSE base


\* ------------------------------------------------------------------ state

VARIABLES
  pc,                  \* where control is: "new", "ctor_raised", "idle", a step of query(), "done"
  is_initialized,      \* self.is_initialized
  enable_reranking,    \* self.enable_reranking
  enable_logging,      \* self.enable_logging
  reranker,            \* self.reranker is set and is not None
  has_collection,      \* hasattr(self, 'collection')
  collection_count,    \* self.collection.count(): the chunks in the index
  has_log_file,        \* hasattr(self, 'log_file')
  logfile,             \* logs_rag.csv on disk: [exists, rows]
  user_query,          \* query(): user_query
  n_results,           \* query(): n_results
  documents,           \* documents of search_with_fallback, then of query()
  confidence_scores,   \* confidence_scores, likewise
  search_assessment,   \* quality_assessment of search_with_fallback
  key_terms,           \* key_terms of search_with_fallback
  documents_fallback,  \* documents_fallback of search_with_fallback
  quality_assessment,  \* quality_assessment of query()
  response,            \* response of query()
  error_message,       \* error_message of query()
  result,              \* the dict query() returns
  stages,              \* history: the stages this query() call went through ("assess": the one
                       \* of search_with_fallback; "assess_result": the one of query())
  retrievals,          \* history: per retrieve_documents call, what it returned and whether the index raised
  evidence_from,       \* history: the attempt whose rerank produced documents
  primary_evidence,    \* history: what the rerank of the primary attempt returned
  failed,              \* history: the service calls that raised in this query() call
  touched,             \* history: the services this query() call reached
  queries_done,        \* history: query() calls that returned
  call,                \* the arguments and the return of a method called on its own
  corpus,              \* the chunks the text splitter makes of the PDFs under data_path
  index,               \* the entries of the Chroma collection the ingestion writes
  runs,                \* history: per process_documents call, what it did
  shared_log,          \* logs_rag.csv as several instances see it: [exists, cells, atomic_append],
                       \* and history: emptied, whether an open(..., "w") found the file there
  procs                \* per instance sharing the file: where it is in _init_logging or _log_query

instance == <<is_initialized, enable_reranking, enable_logging, reranker,
              has_collection, collection_count, has_log_file>>

locals == <<user_query, n_results, documents, confidence_scores,
            search_assessment, key_terms, documents_fallback,
            quality_assessment, response, error_message>>

history == <<stages, retrievals, evidence_from, primary_evidence, failed,
             touched>>

ingestion == <<corpus, index, runs>>

sharing == <<shared_log, procs>>

vars == <<pc, instance, logfile, locals, result, history, queries_done, call,
          ingestion, sharing>>

Unset == [quality_score |-> Zero, has_sufficient_data |-> FALSE,
          recommendation |-> "unset"]

NoText == Text("none", "")

NoResult == [query |-> <<>>, response |-> NoText, retrieved_documents |-> <<>>,
             confidence_scores |-> <<>>, num_documents |-> 0,
             quality_assessment |-> Unset, reranking_enabled |-> FALSE,
             system_initialized |-> FALSE]

LocalsInit ==
  /\ user_query = <<>>
  /\ n_results = 0
  /\ documents = <<>>
  /\ confidence_scores = <<>>
  /\ search_assessment = Unset
  /\ key_terms = <<>>
  /\ documents_fallback = <<>>
  /\ quality_assessment = Unset
  /\ response = NoText
  /\ error_message = NoError

\* no method is called on its own
NoCall == [fn |-> "none"]

\* the ingestion is not part of the run
NoIngestion ==
  /\ corpus = <<>>
  /\ index = {}
  /\ runs = <<>>

\* no other instance shares the log file in the run
NoSharing ==
  /\ shared_log = [exists |-> FALSE, cells |-> <<>>, atomic_append |-> TRUE,
                   emptied |-> FALSE]
  /\ procs = <<>>

HistoryInit ==
  /\ stages = <<>>
  /\ retrievals = <<>>
  /\ evidence_from = "none"
  /\ primary_evidence = Evidence(<<>>, <<>>)
  /\ failed = {}
  /\ touched = {}

\* Before RagSystem(...) is called; the log file of an earlier session may be
\* on disk, with its header.
Init ==
  /\ pc = "new"
  /\ is_initialized = FALSE
  /\ enable_reranking = FALSE
  /\ enable_logging = FALSE
  /\ reranker = FALSE
  /\ has_collection = FALSE
  /\ collection_count = 0
  /\ has_log_file = FALSE
  /\ logfile \in {NoFile, [exists |-> TRUE, rows |-> <<Header>>]}
  /\ LocalsInit
  /\ HistoryInit
  /\ result = NoResult
  /\ queries_done = 0
  /\ call = NoCall
  /\ NoIngestion
  /\ NoSharing

\* ------------------------------------------------------------- __init__

\* _init_logging: the header is written when the file does not exist; a
\* failure to write it turns logging off
InitLoggingFile(file, header_ok) ==
  IF file.exists THEN file
  ELSE IF header_ok THEN [exists |-> TRUE, rows |-> <<Header>>]
  ELSE file

InitLoggingEnabled(file, header_ok) == file.exists \/ header_ok

\* whether the try block of __init__ ran to its end
InitSucceeds(chroma_ok, openai_ok) == chroma_ok /\ openai_ok

\* RagSystem(enable_reranking=arg_rerank, enable_logging=arg_logging).
\*   api_key      OPENAI_API_KEY is set
\*   available    RERANKER_AVAILABLE (sentence_transformers imported)
\*   chroma_ok    the client opened and the collection was found or created
\*   count        the chunks of the collection found (0 when created)
\*   openai_ok    OpenAI() did not raise
\*   model_ok     CrossEncoder(model_name) did not raise
\*   header_ok    the log file's header could be written
Construct ==
  /\ pc = "new"
  /\ \E api_key, arg_rerank, arg_logging, available, chroma_ok, openai_ok,
        model_ok, header_ok \in BOOLEAN, count \in 0..MaxDocs :
       IF ~api_key
       THEN /\ pc' = "ctor_raised"
            /\ UNCHANGED <<instance, logfile>>
       ELSE LET ok == InitSucceeds(chroma_ok, openai_ok)
                rerank == arg_rerank /\ available
            IN /\ pc' = "idle"
               /\ is_initialized' = ok
               /\ has_collection' = chroma_ok
               /\ collection_count' = IF chroma_ok THEN count ELSE 0
               /\ enable_reranking' = IF ok THEN rerank /\ model_ok ELSE rerank
               /\ reranker' = (ok /\ rerank /\ model_ok)
               /\ has_log_file' = (ok /\ arg_logging)
               /\ enable_logging' =
                    IF ok /\ arg_logging
                    THEN InitLoggingEnabled(logfile, header_ok)
                    ELSE arg_logging
               /\ logfile' =
                    IF ok /\ arg_logging
                    THEN InitLoggingFile(logfile, header_ok)
                    ELSE logfile
  /\ UNCHANGED <<call, ingestion, sharing, locals, result, history, queries_done>>


\* ---------------------------------------------------------------- query()

\* query(user_query, n_results) up to the check of is_initialized; on an
\* instance that is not initialised the raise lands in the except branch
QueryStart ==
  /\ pc = "idle"
  /\ queries_done < MaxQueries
  /\ \E q \in Queries, n \in NResultsChoices :
       /\ user_query' = q
       /\ n_results' = n
  /\ documents' = <<>>
  /\ confidence_scores' = <<>>
  /\ search_assessment' = Unset
  /\ key_terms' = <<>>
  /\ documents_fallback' = <<>>
  /\ error_message' = IF is_initialized THEN NoError ELSE NotInitializedMsg
  /\ response' = IF is_initialized THEN NoText
                 ELSE FallbackResponse(NotInitializedMsg)
  /\ quality_assessment' = IF is_initialized THEN Unset
                           ELSE SystemErrorAssessment
  /\ stages' = <<>>
  /\ retrievals' = <<>>
  /\ evidence_from' = "none"
  /\ primary_evidence' = Evidence(<<>>, <<>>)
  /\ failed' = {}
  /\ touched' = {}
  /\ pc' = EntryPc(is_initialized)
  /\ call' = NoCall
  /\ UNCHANGED <<ingestion, sharing, instance, logfile, result, queries_done>>

\* whether the index raised inside retrieve_documents
RetrievalRaised(initialized, count, outcome) ==
  /\ initialized
  /\ \/ outcome = "count_raises"
     \/ outcome = "query_raises" /\ count > 0

\* the history of one retrieve_documents call
Retrieved(r, outcome) ==
  /\ stages' = Append(stages, "retrieve")
  /\ retrievals' =
       Append(retrievals,
              [returned |-> r,
               queried |-> IssuesQuery(is_initialized, collection_count,
                                       outcome),
               raised |-> RetrievalRaised(is_initialized, collection_count,
                                          outcome)])
  /\ failed' = IF RetrievalRaised(is_initialized, collection_count, outcome)
               THEN failed \cup {"retrieval"} ELSE failed
  /\ touched' = IF ReachesIndex(is_initialized)
                THEN touched \cup {"index"} ELSE touched

\* search_n_results = max(n_results * 2, 8)
SearchN(n) == Max(n * 2, SearchMin)

\* Tentativa 1: documents, distances = self.retrieve_documents(query, n)
Retrieve ==
  /\ pc = "retrieve1"
  /\ \E outcome \in RetrievalOutcomes :
       LET r == retrieve_documents(is_initialized, collection_count,
                                   SearchN(n_results), outcome)
       IN /\ documents' = r.documents
          /\ Retrieved(r, outcome)
          /\ pc' = AfterRetrieve(r.documents)
  /\ UNCHANGED <<call, ingestion, sharing, instance, logfile, user_query, n_results, confidence_scores,
                 search_assessment, key_terms, documents_fallback,
                 quality_assessment, response, error_message, result,
                 evidence_from, primary_evidence, queries_done>>

\* the history of one rerank_documents call
Reranked(predict, attempt, ev) ==
  /\ stages' = Append(stages, "rerank")
  /\ evidence_from' = attempt
  /\ failed' = IF enable_reranking /\ reranker /\ predict.raised
               THEN failed \cup {"rerank"} ELSE failed
  /\ touched' = IF enable_reranking /\ reranker
                THEN touched \cup {"reranker"} ELSE touched
  /\ primary_evidence' = IF attempt = "primary" THEN ev ELSE primary_evidence
  /\ UNCHANGED retrievals

\* documents, confidence_scores = self.rerank_documents(query, documents, top_k=4)
Rerank ==
  /\ pc = "rerank1"
  /\ \E predict \in PredictOutcomes(Len(documents)) :
       LET ev == rerank_documents(documents, TopK, enable_reranking, reranker,
                                  predict)
       IN /\ documents' = ev.documents
          /\ confidence_scores' = ev.confidence_scores
          /\ Reranked(predict, "primary", ev)
  /\ pc' = "assess1"
  /\ UNCHANGED <<call, ingestion, sharing, instance, logfile, user_query, n_results, search_assessment,
                 key_terms, documents_fallback, quality_assessment, response,
                 error_message, result, queries_done>>

\* quality_assessment = self.assess_response_quality(...) of the primary
\* attempt, and the return when it has sufficient data
Assess ==
  /\ pc = "assess1"
  /\ search_assessment' = assess_response_quality(documents, confidence_scores)
  /\ stages' = Append(stages, "assess")
  /\ pc' = AfterAssess(search_assessment')
  /\ UNCHANGED <<call, ingestion, sharing, instance, logfile, user_query, n_results, documents,
                 confidence_scores, key_terms, documents_fallback,
                 quality_assessment, response, error_message, result,
                 retrievals, primary_evidence, evidence_from, failed, touched, queries_done>>

\* Tentativa 2: key_terms = self._extract_key_terms(query)
Rewrite ==
  /\ pc = "rewrite"
  /\ key_terms' = _extract_key_terms(user_query)
  /\ stages' = Append(stages, "rewrite")
  /\ pc' = AfterRewrite(key_terms', user_query)
  /\ UNCHANGED <<call, ingestion, sharing, instance, logfile, user_query, n_results, documents,
                 confidence_scores, search_assessment, documents_fallback,
                 quality_assessment, response, error_message, result,
                 retrievals, primary_evidence, evidence_from, failed, touched, queries_done>>

\* documents_fallback, _ = self.retrieve_documents(key_terms, n)
RetrieveFallback ==
  /\ pc = "retrieve2"
  /\ \E outcome \in RetrievalOutcomes :
       LET r == retrieve_documents(is_initialized, collection_count,
                                   SearchN(n_results), outcome)
       IN /\ documents_fallback' = r.documents
          /\ Retrieved(r, outcome)
          /\ pc' = AfterFallback(r.documents)
  /\ UNCHANGED <<call, ingestion, sharing, instance, logfile, user_query, n_results, documents,
                 confidence_scores, search_assessment, key_terms,
                 quality_assessment, response, error_message, result,
                 evidence_from, primary_evidence, queries_done>>

\* documents, confidence_scores = self.rerank_documents(key_terms,
\* documents_fallback, top_k=4); return
RerankFallback ==
  /\ pc = "rerank2"
  /\ \E predict \in PredictOutcomes(Len(documents_fallback)) :
       LET ev == rerank_documents(documents_fallback, TopK, enable_reranking,
                                  reranker, predict)
       IN /\ documents' = ev.documents
          /\ confidence_scores' = ev.confidence_scores
          /\ Reranked(predict, "fallback", ev)
  /\ pc' = "post_search"
  /\ UNCHANGED <<call, ingestion, sharing, instance, logfile, user_query, n_results, search_assessment,
                 key_terms, documents_fallback, quality_assessment, response,
                 error_message, result, queries_done>>

\* query() after search_with_fallback returned: the default scores and the
\* assessment of the evidence
FinalAssess ==
  /\ pc = "post_search"
  /\ confidence_scores' =
       IF confidence_scores = <<>> /\ documents # <<>>
       THEN [i \in 1..Len(documents) |-> NeutralScore]
       ELSE confidence_scores
  /\ quality_assessment' = assess_response_quality(documents, confidence_scores')
  /\ stages' = Append(stages, "assess_result")
  /\ pc' = "generate"
  /\ UNCHANGED <<call, ingestion, sharing, instance, logfile, user_query, n_results, documents,
                 search_assessment, key_terms, documents_fallback, response,
                 error_message, result, retrievals, primary_evidence, evidence_from, failed,
                 touched, queries_done>>

\* whether generate_response reached the generation service
ReachesGeneration(initialized) == initialized

\* response = self.generate_response(user_query, documents, confidence_scores)
Generate ==
  /\ pc = "generate"
  /\ \E outcome \in GenerationOutcomes :
       /\ response' = generate_response(is_initialized, outcome)
       /\ failed' = IF ReachesGeneration(is_initialized) /\ outcome.raised
                    THEN failed \cup {"generation"} ELSE failed
  /\ touched' = IF ReachesGeneration(is_initialized)
                THEN touched \cup {"generation"} ELSE touched
  /\ stages' = Append(stages, "compose")
  /\ pc' = "log"
  /\ UNCHANGED <<call, ingestion, sharing, instance, logfile, user_query, n_results, documents,
                 confidence_scores, search_assessment, key_terms,
                 documents_fallback, quality_assessment, error_message, result,
                 retrievals, primary_evidence, evidence_from, queries_done>>

\* the logging step of query() and the dict it returns
LogQuery ==
  /\ pc = "log"
  /\ \E write_ok \in BOOLEAN :
       /\ logfile' = _log_query(enable_logging, has_log_file, logfile,
                                LogRow(user_query, response, Len(documents),
                                       enable_reranking),
                                write_ok)
       /\ failed' = IF enable_logging /\ (~has_log_file \/ ~write_ok)
                    THEN failed \cup {"log"} ELSE failed
       /\ pc' = AfterLog(write_ok)
       /\ enable_logging' = LoggingAfterLog(enable_logging, has_log_file,
                                            write_ok)
  /\ result' =
       IF pc' = "done"
       THEN Result(user_query, response, documents, confidence_scores,
                   quality_assessment, enable_reranking, is_initialized,
                   error_message)
       ELSE result
  /\ stages' = Append(stages, "log")
  /\ touched' = IF enable_logging /\ has_log_file
                THEN touched \cup {"logfile"} ELSE touched
  /\ UNCHANGED <<call, ingestion, sharing, is_initialized, enable_reranking, reranker,
                 has_collection, collection_count, has_log_file, locals,
                 retrievals, primary_evidence, evidence_from, queries_done>>

\* query() returns; its locals are gone and the dict is the caller's
Return ==
  /\ pc = "done"
  /\ pc' = "idle"
  /\ queries_done' = queries_done + 1
  /\ user_query' = <<>>
  /\ n_results' = 0
  /\ documents' = <<>>
  /\ confidence_scores' = <<>>
  /\ search_assessment' = Unset
  /\ key_terms' = <<>>
  /\ documents_fallback' = <<>>
  /\ quality_assessment' = Unset
  /\ response' = NoText
  /\ error_message' = NoError
  /\ stages' = <<>>
  /\ retrievals' = <<>>
  /\ evidence_from' = "none"
  /\ primary_evidence' = Evidence(<<>>, <<>>)
  /\ failed' = {}
  /\ touched' = {}
  /\ result' = NoResult
  /\ UNCHANGED <<call, ingestion, sharing, instance, logfile>>

\* input(...).strip(): the line without the whitespace around it
Strip(line) == SelectSeq2(line, Range(line) \ {WS})

\* "Por favor, digite uma pergunta valida."
ValidQuestionPrompt == "Por favor, digite uma pergunta valida."

\* interactive_session reads a line that strip() leaves empty: it prints the
\* prompt and reads again, query() is not called
InteractiveBlankLine ==
  /\ pc = "idle"
  /\ \E line \in BlankLines :
       /\ Strip(line) = <<>>
       /\ call' = [fn |-> "interactive_session", user_input |-> Strip(line),
                   printed |-> ValidQuestionPrompt]
  /\ UNCHANGED <<pc, ingestion, sharing, instance, logfile, locals, result, history,
                 queries_done>>

\* what self.collection.count() may do inside get_system_status
CountOutcomes == {"counted", "count_raises"}

\* the dict get_system_status returns
SystemStatus(initialized, has_coll, count, rerank, logging, outcome) ==
  LET status == [initialized |-> initialized,
                 chroma_client |-> has_coll,
                 openai_client |-> initialized,
                 collection_exists |-> has_coll /\ outcome = "counted",
                 collection_count |-> IF has_coll /\ outcome = "counted"
                                      THEN count ELSE 0,
                 reranking_enabled |-> rerank,
                 logging_enabled |-> logging]
  IN IF has_coll /\ outcome = "count_raises"
     THEN [collection_error |-> "count"] @@ status
     ELSE status

\* status = self.get_system_status()
GetSystemStatus ==
  /\ pc = "idle"
  /\ \E outcome \in CountOutcomes :
       call' = [fn |-> "get_system_status",
               returned |-> SystemStatus(is_initialized, has_collection,
                                         collection_count, enable_reranking,
                                         enable_logging, outcome)]
  /\ UNCHANGED <<pc, ingestion, sharing, instance, logfile, locals, result, history,
                 queries_done>>

Next ==
  \/ Construct
  \/ InteractiveBlankLine
  \/ GetSystemStatus
  \/ QueryStart
  \/ Retrieve
  \/ Rerank
  \/ Assess
  \/ Rewrite
  \/ RetrieveFallback
  \/ RerankFallback
  \/ FinalAssess
  \/ Generate
  \/ LogQuery
  \/ Return

Spec == Init /\ [][Next]_vars


\* ------------------------------------- assess_response_quality on its own

\* a call of assess_response_quality(query, documents, confidence_scores) with
\* one score per document, as every caller passes them
InitAssess ==
  /\ pc = "assess_call"
  /\ is_initialized = TRUE
  /\ enable_reranking = TRUE
  /\ enable_logging = FALSE
  /\ reranker = TRUE
  /\ has_collection = TRUE
  /\ collection_count = 0
  /\ has_log_file = FALSE
  /\ logfile = NoFile
  /\ user_query = <<"vendas">>
  /\ n_results = 0
  /\ \E k \in 0..MaxLen :
       /\ documents = [i \in 1..k |-> i]
       /\ confidence_scores \in [1..k -> AssessScoreVals]
  /\ search_assessment = Unset
  /\ key_terms = <<>>
  /\ documents_fallback = <<>>
  /\ quality_assessment = Unset
  /\ response = NoText
  /\ error_message = NoError
  /\ HistoryInit
  /\ result = NoResult
  /\ queries_done = 0
  /\ call = NoCall
  /\ NoIngestion
  /\ NoSharing

AssessCall ==
  /\ pc = "assess_call"
  /\ quality_assessment' = assess_response_quality(documents, confidence_scores)
  /\ pc' = "assess_returned"
  /\ UNCHANGED <<call, ingestion, sharing, instance, logfile, user_query, n_results, documents,
                 confidence_scores, search_assessment, key_terms,
                 documents_fallback, response, error_message, result, history,
                 queries_done>>

NextAssess == AssessCall

SpecAssess == InitAssess /\ [][NextAssess]_vars


\* -------------------------------------------- rerank_documents on its own

\* the chunk texts of the candidate sequences; a text may come twice
CandidateTexts == {1, 2}

\* sequences over S of length 0..n
SeqsUpTo(S, n) == UNION {[1..k -> S] : k \in 0..n}

\* no predict call was made
NoPredict == [raised |-> FALSE, scores |-> <<>>]

\* a call of rerank_documents(query, documents, top_k) on an instance that
\* has reranking off, has it on with the model loaded, or has it on without
\* a model (the constructor stopped before _init_reranker)
InitRerank ==
  /\ pc = "rerank_call"
  /\ is_initialized \in BOOLEAN
  /\ enable_reranking \in BOOLEAN
  /\ reranker \in BOOLEAN
  /\ reranker => enable_reranking /\ is_initialized
  /\ enable_logging = FALSE
  /\ has_collection = is_initialized
  /\ collection_count = 0
  /\ has_log_file = FALSE
  /\ logfile = NoFile
  /\ LocalsInit
  /\ HistoryInit
  /\ result = NoResult
  /\ queries_done = 0
  /\ \E docs \in SeqsUpTo(CandidateTexts, MaxLen), k \in 0..(MaxLen + 1) :
       call = [fn |-> "rerank_documents", documents |-> docs, top_k |-> k,
               called |-> FALSE, predict |-> NoPredict,
               returned |-> Evidence(<<>>, <<>>)]
  /\ NoIngestion
  /\ NoSharing

RerankCall ==
  /\ pc = "rerank_call"
  /\ LET called == CallsPredict(call.documents, enable_reranking, reranker)
     IN \E predict \in IF called THEN PredictOutcomes(Len(call.documents))
                        ELSE {NoPredict} :
          call' = [call EXCEPT
                     !.called = called,
                     !.predict = predict,
                     !.returned = rerank_documents(call.documents, call.top_k,
                                                   enable_reranking, reranker,
                                                   predict)]
  /\ pc' = "rerank_returned"
  /\ UNCHANGED <<ingestion, sharing, instance, logfile, locals, result, history,
                 queries_done>>

NextRerank == RerankCall

SpecRerank == InitRerank /\ [][NextRerank]_vars


\* ------------------------------------------------------------- properties

Count(seq, x) == Cardinality({i \in 1..Len(seq) : seq[i] = x})

\* the positions of control after search_with_fallback returned
Searched == pc \in {"post_search", "generate", "log", "done"}

\* the positions of control after the evidence went to generate_response
Composed == "compose" \in Range(stages)

\* the retry (the retrieval with the rewritten query) was executed
RetryRan == Len(retrievals) = 2

\* the primary retrieval returned and brought no chunk
PrimaryEmpty ==
  Len(retrievals) >= 1 /\ retrievals[1].returned.documents = <<>>

\* the primary attempt was reranked and assessed
PrimaryAssessed == search_assessment.recommendation # "unset"

\* C1: within one query() call retrieve_documents is invoked at most twice,
\* once with the query and at most once with the rewritten query.
C1_AtMostTwoRetrievals ==
  /\ Len(retrievals) <= 2
  /\ Count(stages, "retrieve") = Len(retrievals)
  /\ Count(stages, "rewrite") <= 1

\* C1: a query whose primary and fallback attempts both lack sufficient data
\* returned after two retrievals.
C1_Witness ==
  /\ pc = "done"
  /\ RetryRan
  /\ search_assessment.recommendation = "ask_clarification"
  /\ evidence_from = "fallback"
  /\ ~quality_assessment.has_sufficient_data

\* C2 as stated: when the primary retrieval returns 0 chunks, nothing but the
\* composition follows it: no rerank, no assessment, no further retrieval.
\* (query()'s own assessment of the evidence it returns, "assess_result", is
\* taken as part of the composition.)
C2_EmptyPrimaryStraightToCompose ==
  PrimaryEmpty =>
    \A i \in 2..Len(stages) :
      (\A j \in 2..i : stages[j] # "compose") =>
        stages[i] \notin {"rerank", "assess", "retrieve"}

\* C2 amended: when the primary retrieval returns 0 chunks, its result is
\* neither reranked nor assessed; the query is rewritten and, if and only if
\* the rewrite differs from the query, retrieved once more; that result is
\* reranked if and only if it holds a chunk; query() assesses the final
\* evidence and composes, with empty evidence unless the retry brought chunks.
C2_EmptyPrimaryFallsBack ==
  (PrimaryEmpty /\ pc = "done") =>
    LET rewritten == _extract_key_terms(user_query) # user_query
        found == RetryRan /\ retrievals[2].returned.documents # <<>>
    IN /\ RetryRan <=> rewritten
       /\ stages =
            <<"retrieve", "rewrite">>
            \o (IF rewritten THEN <<"retrieve">> ELSE <<>>)
            \o (IF found THEN <<"rerank">> ELSE <<>>)
            \o <<"assess_result", "compose", "log">>
       /\ ~found => documents = <<>> /\ confidence_scores = <<>>
       /\ ~PrimaryAssessed

\* C2: the primary retrieval brought nothing, the retry brought chunks and
\* they were reranked before the composition.
C2_Witness ==
  /\ pc = "done"
  /\ PrimaryEmpty
  /\ RetryRan
  /\ evidence_from = "fallback"
  /\ documents # <<>>

\* C3 as stated: once the retry has run, the evidence composed from and
\* returned is the retry's result, empty when the retry brought nothing.
C3_RetryResultIsFinal ==
  (RetryRan /\ Searched) =>
    IF documents_fallback = <<>>
    THEN documents = <<>> /\ confidence_scores = <<>>
    ELSE evidence_from = "fallback"

\* C3 amended: once the retry has run and brought at least one chunk, the
\* evidence is the retry's reranked result, better or worse; when the retry
\* brought no chunk, the evidence of the primary attempt is kept.
C3_RetryResultUnlessEmpty ==
  (RetryRan /\ Searched) =>
    /\ IF documents_fallback # <<>>
       THEN /\ evidence_from = "fallback"
            /\ Range(documents) \subseteq Range(documents_fallback)
            /\ Len(documents) = Min(TopK, Len(documents_fallback))
            /\ Len(confidence_scores) = Len(documents)
       ELSE /\ evidence_from \in {"none", "primary"}
            /\ documents = primary_evidence.documents
            /\ Len(confidence_scores) = Len(documents)
            /\ pc \in {"generate", "log", "done"} =>
                 confidence_scores = primary_evidence.confidence_scores
    /\ pc = "done" =>
         /\ result.retrieved_documents = documents
         /\ result.confidence_scores = confidence_scores

\* C3: the retry ran and brought nothing, and the query returned the evidence
\* of the primary attempt.
C3_Witness ==
  /\ pc = "done"
  /\ RetryRan
  /\ documents_fallback = <<>>
  /\ evidence_from = "primary"
  /\ result.retrieved_documents # <<>>

\* C4: after the primary attempt was reranked and assessed, sufficient data
\* means the primary evidence goes to composition after one retrieval; the
\* second retrieval happens exactly when the data is insufficient and the
\* rewrite differs from the query.
C4_RetryOnlyIfInsufficientAndRewritten ==
  PrimaryAssessed =>
    LET sufficient == search_assessment.has_sufficient_data
        rewritten == _extract_key_terms(user_query) # user_query
    IN /\ RetryRan => ~sufficient /\ rewritten
       /\ Searched =>
            /\ (~sufficient /\ rewritten) => RetryRan
            /\ sufficient =>
                 /\ Len(retrievals) = 1
                 /\ evidence_from = "primary"
                 /\ documents = primary_evidence.documents
                 /\ confidence_scores = primary_evidence.confidence_scores
            /\ ~rewritten => Len(retrievals) = 1

\* C4: an assessed primary attempt without sufficient data, a rewrite that
\* differs, and the second retrieval.
C4_Witness ==
  /\ pc = "done"
  /\ PrimaryAssessed
  /\ ~search_assessment.has_sufficient_data
  /\ RetryRan


\* the query() call has returned its dict
Returned == pc = "done"

HasError(r) == "error" \in DOMAIN r

\* the row the query() call appended to the log file, if it appended one
Logged == enable_logging /\ has_log_file /\ "log" \notin failed

LastRow == logfile.rows[Len(logfile.rows)]

\* C5 as stated: when retrieval and rerank succeed (they bring evidence and
\* raise nothing) and the generation call raises, the response is one fixed
\* diagnostic text that holds nothing of the failure, the result has the error
\* field, and the row logged has the length of that text.
C5_GenerationFailureReported ==
  (Returned /\ "generation" \in failed
            /\ failed \cap {"retrieval", "rerank"} = {}
            /\ result.num_documents > 0) =>
    /\ result.response.detail = ""
    /\ HasError(result)
    /\ Logged => LastRow.response_length = StrLen(result.response)

QueryPositions ==
  {"retrieve1", "rerank1", "assess1", "rewrite", "retrieve2", "rerank2",
   "post_search", "generate", "log"}

ResultKeys ==
  {"query", "response", "retrieved_documents", "confidence_scores",
   "num_documents", "quality_assessment", "reranking_enabled",
   "system_initialized"}

\* C6: whatever fails in retrieval, reranking, generation or logging, query()
\* raises nothing: from every position inside it a step is possible, it passes
\* the logging step last, after the composition, and returns a complete dict
\* that is what it was before the logging step, logged or not.
C6_NoFatalState ==
  /\ pc \in {"new", "ctor_raised", "idle", "done"} \cup QueryPositions
  /\ pc \in QueryPositions => ENABLED Next
  /\ Count(stages, "log") <= 1 /\ Count(stages, "compose") <= 1
  /\ "log" \in Range(stages) => Returned
  /\ Returned =>
       /\ stages[Len(stages)] = "log"
       /\ Composed => stages[Len(stages) - 1] = "compose"
       /\ ResultKeys \subseteq DOMAIN result
       /\ result.response = response /\ response # NoText
       /\ result.retrieved_documents = documents
       /\ result.confidence_scores = confidence_scores
       /\ result.num_documents = Len(documents)
       /\ result.quality_assessment = quality_assessment
       /\ quality_assessment # Unset
       /\ HasError(result) <=> error_message # NoError

\* C6: retrieval, reranking, generation and logging all failed in one query()
\* call, and it returned.
C6_Witness ==
  /\ Returned
  /\ failed = {"retrieval", "rerank", "generation", "log"}

\* what a retrieval that succeeds with zero results returns: the one on an
\* empty index
ZeroResults == retrieve_documents(TRUE, 0, SearchMin, "asc")

\* C7 as stated: a retrieval in which the index (the embedding call inside
\* its query) raised returns something other than a retrieval that succeeded
\* with zero results.
C7_RetrievalErrorDistinct ==
  \A i \in 1..Len(retrievals) :
    retrievals[i].raised => retrievals[i].returned # ZeroResults

Constructed == pc \notin {"new", "ctor_raised"}

\* what of the pipeline ran on an instance that is not initialised: nothing
RanNothing ==
  /\ touched \cap {"index", "reranker", "generation"} = {}
  /\ Range(stages) \subseteq {"log"}

\* C8 as stated: an initialisation failure is fatal at construction, so no
\* instance exists that is not initialised; and no such instance runs
\* retrieval or generation or returns a result without an error.
C8_InitFailureFatal ==
  /\ Constructed => is_initialized
  /\ ~is_initialized =>
       /\ RanNothing
       /\ Returned => HasError(result)

\* C8 amended: a failure of the index or of a service client is not fatal at
\* construction (only a missing OPENAI_API_KEY raises there): the constructor
\* returns an instance with is_initialized false. Such an instance runs no
\* retrieval, rerank or generation, and every result it returns has the error
\* field, system_initialized false, no documents and the recommendation
\* system_error.
C8_UninitializedNeverRuns ==
  (Constructed /\ ~is_initialized) =>
    /\ RanNothing
    /\ Returned =>
         /\ HasError(result)
         /\ result.error = NotInitializedMsg
         /\ ~result.system_initialized
         /\ result.num_documents = 0
         /\ result.quality_assessment = SystemErrorAssessment
         /\ result.response = SearchUnavailableText

\* C8: an instance whose initialisation failed answered a query.
C8_Witness ==
  /\ Returned
  /\ ~is_initialized
  /\ HasError(result)

\* C9: for a score sequence s of n scores, avg is the mean and max the
\* maximum, has_sufficient_data is n >= 1 and max > 0.1, quality_score is
\* (avg + max) / 2, and the recommendation is no_documents for n = 0, else
\* ask_clarification without sufficient data, else high_confidence above 0.7,
\* else medium_confidence above 0.4, else low_confidence.
C9_AssessAsSpecified ==
  pc = "assess_returned" =>
    LET s == confidence_scores
        n == Len(s)
        qa == quality_assessment
    IN IF n = 0
       THEN /\ qa.quality_score.num = 0
            /\ ~qa.has_sufficient_data
            /\ qa.recommendation = "no_documents"
       ELSE LET total == SumSeq(s)
                mx == CHOOSE x \in Range(s) : \A y \in Range(s) : y <= x
                \* twice the quality score, times n, in tenths
                twice == total + n * mx
            IN /\ qa.avg_confidence.num * n = total * qa.avg_confidence.den
               /\ qa.max_confidence.num = mx * qa.max_confidence.den
               /\ qa.has_sufficient_data <=> (n >= 1 /\ mx > 1)
               /\ qa.quality_score.num * 2 * n = twice * qa.quality_score.den
               /\ qa.recommendation =
                    CASE ~(mx > 1) -> "ask_clarification"
                      [] mx > 1 /\ twice > 2 * n * 7 -> "high_confidence"
                      [] mx > 1 /\ twice <= 2 * n * 7 /\ twice > 2 * n * 4 ->
                           "medium_confidence"
                      [] OTHER -> "low_confidence"

\* C9: scores of exactly 0.7 were assessed and fell in the lower band.
C9_Witness ==
  /\ pc = "assess_returned"
  /\ confidence_scores = <<7, 7>>
  /\ quality_assessment.recommendation = "medium_confidence"

InUnitInterval(q) == 0 <= q.num /\ q.num <= 10 * q.den

\* C10 as stated: the quality_score of every assessment, of the search and of
\* the result, lies in [0, 1] whatever the reranker's scores.
C10_QualityScoreInUnitInterval ==
  /\ InUnitInterval(search_assessment.quality_score)
  /\ InUnitInterval(quality_assessment.quality_score)
  /\ InUnitInterval(result.quality_assessment.quality_score)


\* ------------------------------------------ retrieve_documents on its own

\* a call of retrieve_documents(query, n_results) on an instance whose
\* collection holds collection_count chunks
InitRetrieve ==
  /\ pc = "retrieve_call"
  /\ is_initialized \in BOOLEAN
  /\ enable_reranking = FALSE
  /\ reranker = FALSE
  /\ enable_logging = FALSE
  /\ has_collection = TRUE
  /\ collection_count \in 0..(MaxDocs + 1)
  /\ has_log_file = FALSE
  /\ logfile = NoFile
  /\ LocalsInit
  /\ HistoryInit
  /\ result = NoResult
  /\ queries_done = 0
  /\ \E n \in 1..(MaxDocs + 2) :
       call = [fn |-> "retrieve_documents", n_results |-> n,
               outcome |-> "none", queried |-> FALSE,
               returned |-> NoDocuments]
  /\ NoIngestion
  /\ NoSharing

RetrieveCall ==
  /\ pc = "retrieve_call"
  /\ \E outcome \in RetrievalOutcomes :
       call' = [call EXCEPT
                  !.outcome = outcome,
                  !.queried = IssuesQuery(is_initialized, collection_count,
                                          outcome),
                  !.returned = retrieve_documents(is_initialized,
                                                  collection_count,
                                                  call.n_results, outcome)]
  /\ pc' = "retrieve_returned"
  /\ UNCHANGED <<ingestion, sharing, instance, logfile, locals, result, history,
                 queries_done>>

NextRetrieve == RetrieveCall

SpecRetrieve == InitRetrieve /\ [][NextRetrieve]_vars

\* ------------------------------------- DocumentProcessor.process_documents

\* chunk texts (page_content) the text splitter may produce: 400 characters;
\* 51 characters; exactly 50 characters; 49 characters between 5 and 6
\* blanks
ChunkTexts == {"a400", "b51", "c50", "d49_padded"}

\* len(chunk.page_content)
RawLen(content) ==
  CASE content = "a400" -> 400
    [] content = "b51" -> 51
    [] content = "c50" -> 50
    [] content = "d49_padded" -> 60

\* len(chunk.page_content.strip())
TrimmedLen(content) ==
  CASE content = "a400" -> 400
    [] content = "b51" -> 51
    [] content = "c50" -> 50
    [] content = "d49_padded" -> 49

\* hashlib.md5(chunk.page_content.encode()).hexdigest()[:8]
Md5Prefix(content) ==
  CASE content = "a400" -> "f4347bb3"
    [] content = "b51" -> "a3b2c571"
    [] content = "c50" -> "5a86e6c1"
    [] content = "d49_padded" -> "a851d5d1"

\* the chunk sequences of the corpora under data_path: empty, one chunk,
\* two chunks in both orders, a chunk twice, corpora with the chunks around
\* the length threshold, and one chunk more than a batch holds
Corpora ==
  { <<>>,
    <<"a400">>,
    <<"b51">>,
    <<"a400", "b51">>,
    <<"b51", "a400">>,
    <<"a400", "a400">>,
    <<"d49_padded", "a400">>,
    <<"a400", "c50">>,
    <<"c50", "d49_padded">>,
    [i \in 1..(BatchSize + 1) |-> "a400"] }

\* a filter that measures the text without strip()
IsValidChunkUntrimmed(content) == RawLen(content) > MinChunkLen

\* len(chunk.page_content.strip()) > 50
IsValidChunk(content) == TrimmedLen(content) > MinChunkLen

\* valid_chunks = [chunk for chunk in chunks if ...]
ValidChunks(chunks) == SelectSeq(chunks, IsValidChunk)

\* doc_id = f"doc_{i}_{md5[:8]}", i the position among the valid chunks
doc_id(i, content) == [pos |-> i, hash |-> Md5Prefix(content)]

\* ids_list and documents_list, entry by entry (enumerate counts from 0)
Entries(valid_chunks) ==
  [i \in 1..Len(valid_chunks) |->
     [id |-> doc_id(i - 1, valid_chunks[i]), document |-> valid_chunks[i]]]

\* an insertion that numbers the entries on from those of the collection
upsert_under_new_ids(entries_of_index, batch) ==
  entries_of_index \cup
    {[id |-> [pos |-> batch[i].id.pos + Cardinality(entries_of_index),
              hash |-> batch[i].id.hash],
      document |-> batch[i].document] : i \in 1..Len(batch)}

\* self.collection.upsert(documents, metadatas, ids): an entry of the same
\* id is overwritten
upsert(entries_of_index, batch) ==
  {e \in entries_of_index : \A i \in 1..Len(batch) : batch[i].id # e.id}
    \cup Range(batch)

\* total_batches = (len(documents_list) + batch_size - 1) // batch_size
TotalBatches(n) == (n + BatchSize - 1) \div BatchSize

\* documents_list[i:i+batch_size] of batch number b, counted from 1
Batch(entries, b) ==
  SubSeq(entries, (b - 1) * BatchSize + 1, Min(b * BatchSize, Len(entries)))

\* the collection after the batches 1..b were upserted
RECURSIVE UpsertBatches(_, _, _)
UpsertBatches(entries_of_index, entries, b) ==
  IF b = 0 THEN entries_of_index
  ELSE upsert(UpsertBatches(entries_of_index, entries, b - 1),
              Batch(entries, b))

\* what a run may meet: no valid PDF under data_path, the loader raising or
\* loading nothing, the upsert of a batch raising, or nothing of the kind
IngestOutcomes == {"no_valid_pdfs", "load_fails", "upsert_raises", "ok"}

\* process_documents(): the collection it leaves and the value it returns;
\* when an upsert raises, it is that of batch number failing_batch
process_documents(entries_of_index, chunks, outcome, failing_batch) ==
  IF outcome \in {"no_valid_pdfs", "load_fails"}
  THEN [index |-> entries_of_index, returned |-> FALSE]
  ELSE LET entries == Entries(ValidChunks(chunks))
           total_batches == TotalBatches(Len(entries))
       IN IF outcome = "upsert_raises" /\ failing_batch <= total_batches
          THEN [index |-> UpsertBatches(entries_of_index, entries,
                                        failing_batch - 1),
                returned |-> FALSE]
          ELSE [index |-> UpsertBatches(entries_of_index, entries,
                                        total_batches),
                returned |-> TRUE]

\* the number of the batch whose upsert raised in a run, 0 when none did
FailedBatch(chunks, outcome, failing_batch) ==
  IF /\ outcome = "upsert_raises"
     /\ failing_batch <= TotalBatches(Len(ValidChunks(chunks)))
  THEN failing_batch ELSE 0

\* a DocumentProcessor on a collection just created, the PDFs under
\* data_path splitting into one of the corpora
InitIngest ==
  /\ pc = "ingest_idle"
  /\ is_initialized = FALSE
  /\ enable_reranking = FALSE
  /\ reranker = FALSE
  /\ enable_logging = FALSE
  /\ has_collection = TRUE
  /\ collection_count = 0
  /\ has_log_file = FALSE
  /\ logfile = NoFile
  /\ LocalsInit
  /\ HistoryInit
  /\ result = NoResult
  /\ queries_done = 0
  /\ call = NoCall
  /\ corpus \in Corpora
  /\ index = {}
  /\ runs = <<>>
  /\ NoSharing

\* the files under data_path change between two runs
EditCorpus ==
  /\ pc = "ingest_idle"
  /\ Len(runs) < MaxRuns
  /\ \E c \in Corpora \ {corpus} : corpus' = c
  /\ UNCHANGED <<pc, index, runs, call, sharing, instance, logfile, locals, result,
                 history, queries_done>>

\* processor.process_documents()
ProcessDocuments ==
  /\ pc = "ingest_idle"
  /\ Len(runs) < MaxRuns
  /\ \E outcome \in IngestOutcomes,
        failing_batch \in 1..Max(1, TotalBatches(Len(ValidChunks(corpus)))) :
       LET r == process_documents(index, corpus, outcome, failing_batch)
       IN /\ index' = r.index
          /\ runs' = Append(runs,
                            [corpus |-> corpus, returned |-> r.returned,
                             count |-> Cardinality(r.index),
                             failed_batch |->
                               FailedBatch(corpus, outcome, failing_batch)])
  /\ collection_count' = Cardinality(index')
  /\ UNCHANGED <<pc, corpus, call, sharing, is_initialized, enable_reranking,
                 enable_logging, reranker, has_collection, has_log_file,
                 logfile, locals, result, history, queries_done>>

NextIngest ==
  \/ EditCorpus
  \/ ProcessDocuments

SpecIngest == InitIngest /\ [][NextIngest]_vars

\* ------------------------------ the collection both sides open by name

\* characters of a collection name: letters and digits, and the separators
\* the sanitizer allows; any other character is one it replaces
AlnumChars == {"a", "b", "7"}

SeparatorChars == {".", "_", "-"}

\* n times the character c
Repeat(c, n) == [i \in 1..n |-> c]

\* what a configured name may begin and end with
NameEnds == {<<>>, <<"_">>, <<"-", ".">>}

\* the middle of a configured name: nothing, less than 3 characters, the
\* default name's shape, a name with a blank, and names around and beyond
\* 63 characters
NameBodies ==
  { <<>>,
    <<"a">>,
    <<"a", "b">>,
    <<"a", "b", "_", "7">>,
    <<"a", " ", "b", "!">>,
    Repeat("a", NameMax),
    Repeat("a", NameMax + 1),
    <<"a">> \o Repeat("_", NameMax) \o <<"b">> }

\* the collection_name arguments
CollectionNames ==
  {pre \o body \o post : pre \in NameEnds, body \in NameBodies,
                          post \in NameEnds}

\* re.sub(r'[^a-zA-Z0-9._-]', '_', name)
ReplaceInvalid(name) ==
  [i \in 1..Len(name) |->
     IF name[i] \in AlnumChars \cup SeparatorChars THEN name[i] ELSE "_"]

\* re.sub(r'^[._-]+', '', name)
StripLeadingSeparators(name) ==
  LET kept == {i \in 1..Len(name) : name[i] \notin SeparatorChars}
  IN IF kept = {} THEN <<>>
     ELSE SubSeq(name, CHOOSE i \in kept : \A j \in kept : i <= j,
                 Len(name))

\* re.sub(r'[._-]+$', '', name)
StripTrailingSeparators(name) ==
  LET kept == {i \in 1..Len(name) : name[i] \notin SeparatorChars}
  IN IF kept = {} THEN <<>>
     ELSE SubSeq(name, 1, CHOOSE i \in kept : \A j \in kept : i >= j)

\* if len(name) > 63: name = name[:63]; strip the trailing separators again
Truncate(name) ==
  IF Len(name) > NameMax
  THEN StripTrailingSeparators(SubSeq(name, 1, NameMax))
  ELSE name

\* if len(name) < 3: name = name + "001"
Pad(name) ==
  IF Len(name) < NameMin THEN name \o <<"0", "0", "1">> ELSE name

sanitize_collection_name(name) ==
  Pad(Truncate(StripTrailingSeparators(
        StripLeadingSeparators(ReplaceInvalid(name)))))

\* embedding_functions.SentenceTransformerEmbeddingFunction(
\*   model_name="all-MiniLM-L6-v2"), handed to get_or_create_collection
IngestionEmbedding ==
  [function |-> "SentenceTransformerEmbeddingFunction",
   model_name |-> "all-MiniLM-L6-v2"]

\* get_collection(name=...) and create_collection(name=...) are given no
\* embedding_function: the collection object embeds the query texts with
\* the library's default
QueryEmbedding ==
  [function |-> "chromadb default", model_name |-> "not given"]

NotOpened == [opened |-> FALSE]

\* DocumentProcessor and RagSystem are to be constructed with the same
\* collection_name
InitSetup ==
  /\ pc = "setup"
  /\ is_initialized = FALSE
  /\ enable_reranking = FALSE
  /\ reranker = FALSE
  /\ enable_logging = FALSE
  /\ has_collection = FALSE
  /\ collection_count = 0
  /\ has_log_file = FALSE
  /\ logfile = NoFile
  /\ LocalsInit
  /\ HistoryInit
  /\ result = NoResult
  /\ queries_done = 0
  /\ \E name \in CollectionNames :
       call = [fn |-> "collection", collection_name |-> name,
               ingestion |-> NotOpened, retrieval |-> NotOpened]
  /\ NoIngestion
  /\ NoSharing

\* DocumentProcessor.__init__ and _setup_chromadb
SetupIngestion ==
  /\ pc = "setup"
  /\ ~call.ingestion.opened
  /\ call' = [call EXCEPT
                !.ingestion =
                  [opened |-> TRUE,
                   name |-> sanitize_collection_name(call.collection_name),
                   embedding_function |-> IngestionEmbedding]]
  /\ UNCHANGED <<pc, ingestion, sharing, instance, logfile, locals, result, history,
                 queries_done>>

\* RagSystem.__init__ and _init_chroma_client
SetupRetrieval ==
  /\ pc = "setup"
  /\ ~call.retrieval.opened
  /\ call' = [call EXCEPT
                !.retrieval =
                  [opened |-> TRUE,
                   name |-> call.collection_name,
                   embedding_function |-> QueryEmbedding]]
  /\ UNCHANGED <<pc, ingestion, sharing, instance, logfile, locals, result, history,
                 queries_done>>

NextSetup ==
  \/ SetupIngestion
  \/ SetupRetrieval

SpecSetup == InitSetup /\ [][NextSetup]_vars

\* ------------------------------- several instances sharing logs_rag.csv

\* the RagSystem instances (one per session) that log to the same file
Instances == {"A", "B"}

\* The file is a sequence of cells. A writerow call writes the cells 1..n of
\* one row, the n-th being its line end.
Cells(id, n) == [k \in 1..n |-> [row |-> id, k |-> k, of |-> n]]

\* the header row _init_logging writes
HeaderCells == Cells(<<"header", 0>>, 1)

\* a cell no write has filled
Hole == [row |-> <<"hole", 0>>, k |-> 0, of |-> 1]

\* how many cells a query's row takes: it grows with the query text
RowLengths == {2, 3}

\* a write of the cells r at offset pos of the file
WriteAt(cells, pos, r) ==
  [j \in 1..Max(Len(cells), pos + Len(r)) |->
     IF j > pos /\ j <= pos + Len(r) THEN r[j - pos]
     ELSE IF j <= Len(cells) THEN cells[j]
     ELSE Hole]

\* an instance whose __init__ has reached _init_logging
NewProc == [pc |-> "new", enable_logging |-> TRUE, pos |-> 0, row |-> <<>>,
            logged |-> 0]

\* the file is there with its header, or not there; the platform's append
\* is one atomic step or a seek followed by a write
InitLog ==
  /\ pc = "shared"
  /\ is_initialized = FALSE
  /\ enable_reranking = FALSE
  /\ reranker = FALSE
  /\ enable_logging = FALSE
  /\ has_collection = FALSE
  /\ collection_count = 0
  /\ has_log_file = FALSE
  /\ logfile = NoFile
  /\ LocalsInit
  /\ HistoryInit
  /\ result = NoResult
  /\ queries_done = 0
  /\ call = NoCall
  /\ NoIngestion
  /\ \E there \in BOOLEAN, atomic \in BOOLEAN :
       shared_log = [exists |-> there,
                     cells |-> IF there THEN HeaderCells ELSE <<>>,
                     atomic_append |-> atomic,
                     emptied |-> FALSE]
  /\ procs = [i \in Instances |-> NewProc]

\* _init_logging: if not os.path.exists(self.log_file)
InitLoggingExists(i) ==
  /\ procs[i].pc = "new"
  /\ procs' = [procs EXCEPT
                 ![i].pc = IF shared_log.exists THEN "idle" ELSE "create"]
  /\ UNCHANGED <<pc, call, ingestion, shared_log, instance, logfile, locals,
                 result, history, queries_done>>

\* _init_logging: open(self.log_file, "w") creates the file or empties it;
\* if it raises, logging is turned off
InitLoggingOpen(i) ==
  /\ procs[i].pc = "create"
  /\ \E ok \in BOOLEAN :
       IF ok
       THEN /\ shared_log' = [shared_log EXCEPT
                                !.exists = TRUE,
                                !.cells = <<>>,
                                !.emptied = shared_log.emptied
                                              \/ shared_log.exists]
            /\ procs' = [procs EXCEPT ![i].pc = "header", ![i].pos = 0]
       ELSE /\ procs' = [procs EXCEPT ![i].pc = "idle",
                                      ![i].enable_logging = FALSE]
            /\ UNCHANGED shared_log
  /\ UNCHANGED <<pc, call, ingestion, instance, logfile, locals, result,
                 history, queries_done>>

\* _init_logging: writer.writerow(header), flushed when the with block
\* closes the file, at the offset of the handle opened with "w"
InitLoggingHeader(i) ==
  /\ procs[i].pc = "header"
  /\ shared_log' = [shared_log EXCEPT
                      !.cells = WriteAt(shared_log.cells, procs[i].pos,
                                        HeaderCells)]
  /\ procs' = [procs EXCEPT ![i].pc = "idle"]
  /\ UNCHANGED <<pc, call, ingestion, instance, logfile, locals, result,
                 history, queries_done>>

\* _log_query: returns at once when logging is off; otherwise
\* open(self.log_file, "a") and the row is built
LogQueryOpen(i) ==
  /\ procs[i].pc = "idle"
  /\ procs[i].enable_logging
  /\ procs[i].logged < MaxQueries
  /\ \E n \in RowLengths :
       procs' = [procs EXCEPT
                   ![i].pc = "append",
                   ![i].row = Cells(<<i, procs[i].logged + 1>>, n)]
  /\ shared_log' = [shared_log EXCEPT !.exists = TRUE]
  /\ UNCHANGED <<pc, call, ingestion, instance, logfile, locals, result,
                 history, queries_done>>

\* _log_query: the row is written when the with block closes the file,
\* where the platform appends in one step
LogQueryAppend(i) ==
  /\ procs[i].pc = "append"
  /\ shared_log.atomic_append
  /\ shared_log' = [shared_log EXCEPT
                      !.cells = shared_log.cells \o procs[i].row]
  /\ procs' = [procs EXCEPT ![i].pc = "idle",
                            ![i].logged = procs[i].logged + 1]
  /\ UNCHANGED <<pc, call, ingestion, instance, logfile, locals, result,
                 history, queries_done>>

\* _log_query: where the platform appends by seeking to the end and then
\* writing, the seek
LogQuerySeek(i) ==
  /\ procs[i].pc = "append"
  /\ ~shared_log.atomic_append
  /\ procs' = [procs EXCEPT ![i].pc = "seeked",
                            ![i].pos = Len(shared_log.cells)]
  /\ UNCHANGED <<pc, call, ingestion, shared_log, instance, logfile, locals,
                 result, history, queries_done>>

\* _log_query: and the write at the offset the seek found
LogQueryWrite(i) ==
  /\ procs[i].pc = "seeked"
  /\ shared_log' = [shared_log EXCEPT
                      !.cells = WriteAt(shared_log.cells, procs[i].pos,
                                        procs[i].row)]
  /\ procs' = [procs EXCEPT ![i].pc = "idle",
                            ![i].logged = procs[i].logged + 1]
  /\ UNCHANGED <<pc, call, ingestion, instance, logfile, locals, result,
                 history, queries_done>>

NextLog ==
  \E i \in Instances :
    \/ InitLoggingExists(i)
    \/ InitLoggingOpen(i)
    \/ InitLoggingHeader(i)
    \/ LogQueryOpen(i)
    \/ LogQueryAppend(i)
    \/ LogQuerySeek(i)
    \/ LogQueryWrite(i)

SpecLog == InitLog /\ [][NextLog]_vars

\* ------------------------------------------------------------------- C11

RerankReturned == pc = "rerank_returned"

\* C11: with reranking disabled or no reranker model loaded, rerank_documents
\* returns the first min(top_k, len(documents)) documents in their incoming
\* order, each with the neutral score 0.5.
C11_DegradedIsPassThrough ==
  (RerankReturned /\ (~enable_reranking \/ ~reranker)) =>
    LET r == call.returned
        k == Min(call.top_k, Len(call.documents))
    IN /\ Len(r.documents) = k
       /\ Len(r.confidence_scores) = k
       /\ \A i \in 1..k :
            /\ r.documents[i] = call.documents[i]
            /\ r.confidence_scores[i] = NeutralScore
       /\ ~call.called

\* rerank(q, [c1, c2, c1], 2) with reranking off returned [c1, c2] with 0.5 each
C11_Witness ==
  /\ RerankReturned
  /\ ~enable_reranking
  /\ call.documents = <<1, 2, 1>>
  /\ call.top_k = 2
  /\ call.returned = Evidence(<<1, 2>>, <<NeutralScore, NeutralScore>>)

\* ------------------------------------------------------------------- C12

\* whether f picks distinct candidates
Injective(f) == \A a, b \in DOMAIN f : f[a] = f[b] => a = b

\* C12: when the model scored the candidates, rerank_documents returns
\* min(top_k, len(documents)) documents, each with the score the model gave
\* that candidate, by non-increasing score, and no candidate left out has a
\* higher score than one returned; if the model raised, the same number of
\* documents comes back; for no candidates it returns nothing and the model
\* is not called.
C12_RerankSortsAndTruncates ==
  (RerankReturned /\ enable_reranking /\ reranker) =>
    LET r == call.returned
        n == Len(call.documents)
        k == Min(call.top_k, n)
    IN /\ Len(r.documents) = k
       /\ Len(r.confidence_scores) = k
       /\ \A i \in 1..(k - 1) :
            r.confidence_scores[i] >= r.confidence_scores[i + 1]
       /\ (n = 0) => (~call.called /\ r = Evidence(<<>>, <<>>))
       /\ (n > 0) => call.called
       /\ (n > 0 /\ ~call.predict.raised) =>
            \E f \in [1..k -> 1..n] :
              /\ Injective(f)
              /\ \A i \in 1..k :
                   /\ r.documents[i] = call.documents[f[i]]
                   /\ r.confidence_scores[i] = call.predict.scores[f[i]]
              /\ \A j \in (1..n) \ {f[i] : i \in 1..k} :
                   \A i \in 1..k :
                     call.predict.scores[j] <= r.confidence_scores[i]

\* three candidates scored 0.1, 1.2, 0.5 and top_k = 2: the second and the
\* third come back
C12_Witness ==
  /\ RerankReturned
  /\ enable_reranking /\ reranker
  /\ call.documents = <<1, 2, 1>>
  /\ call.top_k = 2
  /\ ~call.predict.raised
  /\ call.predict.scores = <<1, 12, 5>>
  /\ call.returned = Evidence(<<2, 1>>, <<12, 5>>)

\* ------------------------------------------------------------------- C13

RetrieveReturned == pc = "retrieve_returned"

\* C13: retrieve_documents(query, n) returns at most min(n, count) chunks,
\* as many distances as chunks, and on an empty collection it returns the
\* empty result (a return, whatever the index did) without sending a
\* nearest-neighbour query.
C13_RetrieveBounded ==
  RetrieveReturned =>
    /\ Len(call.returned.documents)
         <= Min(call.n_results, collection_count)
    /\ Len(call.returned.distances) = Len(call.returned.documents)
    /\ (collection_count = 0) =>
         (call.returned = NoDocuments /\ ~call.queried)

\* 2 chunks asked of a collection of 3: the query was sent and 2 came back
C13_Witness ==
  /\ RetrieveReturned
  /\ is_initialized
  /\ collection_count = 3
  /\ call.n_results = 2
  /\ call.queried
  /\ Len(call.returned.documents) = 2

\* an initialised instance asked an empty collection
C13_WitnessEmpty ==
  /\ RetrieveReturned
  /\ is_initialized
  /\ collection_count = 0
  /\ call.outcome = "asc"
  /\ call.returned = NoDocuments

\* ------------------------------------------------------------------- C14

\* C14 as stated: the result of query(text, n_results) has num_documents no
\* greater than n_results.
C14_NumDocumentsWithinNResults ==
  Returned => result.num_documents <= n_results

\* ------------------------------------------------------------------- C15

\* C15: on an initialised instance whose collection is empty, every result
\* has num_documents = 0, no error field and the recommendation
\* no_documents.
C15_EmptyIndexIsNotAnError ==
  (Returned /\ is_initialized /\ collection_count = 0) =>
    /\ result.num_documents = 0
    /\ result.retrieved_documents = <<>>
    /\ ~HasError(result)
    /\ result.quality_assessment.recommendation = "no_documents"
    /\ result.quality_assessment.recommendation # "system_error"

\* a query on an empty collection that went to the index twice and to the
\* generation service, and returned
C15_Witness ==
  /\ Returned
  /\ is_initialized
  /\ collection_count = 0
  /\ Len(retrievals) = 2
  /\ "generation" \in touched
  /\ result.num_documents = 0

\* ------------------------------------------------------------------- C16

\* C16: when two runs of process_documents in a row succeed over the same
\* corpus, the collection holds after the second as many entries as after
\* the first.
C16_SecondRunKeepsCount ==
  \A i \in 1..(Len(runs) - 1) :
    ( /\ runs[i].returned
      /\ runs[i + 1].returned
      /\ runs[i + 1].corpus = runs[i].corpus )
    => runs[i + 1].count = runs[i].count

\* two runs over the corpus of two chunks succeeded and the collection holds
\* two entries
C16_Witness ==
  /\ Len(runs) = 2
  /\ runs[1].returned /\ runs[2].returned
  /\ runs[1].corpus = <<"a400", "b51">>
  /\ runs[2].corpus = <<"a400", "b51">>
  /\ Cardinality(index) = 2

\* ------------------------------------------------------------------- C17

\* C17 as stated: the id of an entry is determined by its text alone, so
\* the collection never holds two entries of the same text.
C17_IdFromContentAlone ==
  \A e1, e2 \in index : e1.document = e2.document => e1.id = e2.id

\* ------------------------------------------------------------------- C18

\* C18: no entry of the collection has a text whose trimmed length is below
\* 50 characters.
C18_NoShortChunkIndexed ==
  \A e \in index : TrimmedLen(e.document) >= MinChunkLen

\* a successful run over a corpus with a chunk of 49 characters and a long
\* one left only the long one in the collection
C18_Witness ==
  /\ Len(runs) = 1
  /\ runs[1].returned
  /\ runs[1].corpus = <<"d49_padded", "a400">>
  /\ {e.document : e \in index} = {"a400"}

\* ------------------------------------------------------------------- C19

\* C19 as stated: after a successful run, every chunk of its corpus whose
\* trimmed length is 50 or more is an entry of the collection.
C19_EveryLongEnoughChunkIndexed ==
  \A i \in 1..Len(runs) :
    (i = Len(runs) /\ runs[i].returned) =>
      \A j \in 1..Len(runs[i].corpus) :
        TrimmedLen(runs[i].corpus[j]) >= MinChunkLen =>
          \E e \in index : e.document = runs[i].corpus[j]

\* ------------------------------------------------------------------- C20

\* no word of the query passes the length and stop-word filter
NothingSurvives(query) ==
  \A i \in 1..Len(query) :
    \/ query[i] = WS
    \/ WordLen(Lower(query[i])) <= MinWordLen
    \/ Lower(query[i]) \in StopWords

Rewritten == Count(stages, "rewrite") > 0

\* C20 as stated: the rewrite is never empty, and when no word survives the
\* filter it is the query itself and no retry retrieval follows.
C20_RewriteNeverEmpty ==
  Rewritten =>
    /\ key_terms # <<>>
    /\ NothingSurvives(user_query) =>
         (key_terms = user_query /\ ~RetryRan)

\* ------------------------------------------------------------------- C21

\* the query text is empty or whitespace only
IsBlank(query) == \A i \in 1..Len(query) : query[i] = WS

\* the stages of the pipeline proper
PipelineStages == {"retrieve", "rerank", "assess", "assess_result", "compose"}

\* C21 as stated: for an empty or whitespace-only query text no retrieval,
\* rerank, assessment or generation is run, and neither the index, the
\* reranker nor the generation service is reached.
C21_BlankQueryRejected ==
  (pc \in QueryPositions \cup {"done"} /\ IsBlank(user_query)) =>
    /\ \A i \in 1..Len(stages) : stages[i] \notin PipelineStages
    /\ touched \cap {"index", "reranker", "generation"} = {}

\* ------------------------------------------------------------------- C22

\* the logging step of a query() call on an instance with logging enabled
LogStepWithLogging == pc = "log" /\ pc' = "done" /\ enable_logging

\* the write to the log file itself failed
LogWriteFailed == "log" \in failed /\ "logfile" \in touched

\* C22 as stated: on an instance with logging enabled, initialised or not,
\* the logging step of every query() call appends exactly one row to the log
\* file, the row of that query (unless writing to the file itself fails).
C22_EveryQueryLogged ==
  [][(LogStepWithLogging /\ ~LogWriteFailed')
       => logfile'.rows =
            Append(logfile.rows,
                   LogRow(user_query, response, Len(documents),
                          enable_reranking))]_vars

\* ------------------------------------------------------------------- C24

\* the configuration of the instance and the collection it reads
Configuration ==
  <<is_initialized, enable_reranking, enable_logging, reranker,
    has_collection, collection_count, has_log_file>>

\* the rows of the log file are kept and at most one is added
LogOnlyAppended ==
  \/ logfile' = logfile
  \/ /\ Len(logfile'.rows) = Len(logfile.rows) + 1
     /\ SubSeq(logfile'.rows, 1, Len(logfile.rows)) = logfile.rows

\* C24: no step of query(), get_system_status() or the interactive prompt
\* changes a field of the instance, the collection or the ingested index;
\* the log file is the only thing a query changes, by appending.
C24_QueriesAreReadOnly ==
  [][pc # "new" =>
       /\ Configuration' = Configuration
       /\ index' = index
       /\ LogOnlyAppended
       /\ (pc = "idle" /\ pc' = "idle") => logfile' = logfile]_vars

\* a query on an initialised instance with logging and reranking on went
\* through retrieval, rerank and generation, a log write failed, and it
\* returned
C24_Witness ==
  /\ Returned
  /\ is_initialized /\ enable_logging /\ enable_reranking
  /\ {"index", "reranker", "generation", "logfile"} \subseteq touched
  /\ "log" \in failed

\* get_system_status returned the status of an initialised instance
C24_WitnessStatus ==
  /\ pc = "idle"
  /\ call.fn = "get_system_status"
  /\ call.returned.initialized
  /\ call.returned.collection_count = MaxDocs

\* ------------------------------------------------------------------- C28

\* C28: in every result of query() retrieved_documents and confidence_scores
\* have num_documents entries, and the row logged for the query holds the
\* same num_documents and the length of the response returned.
C28_ResultAndLogRowConsistent ==
  Returned =>
    /\ Len(result.retrieved_documents) = result.num_documents
    /\ Len(result.confidence_scores) = result.num_documents
    /\ Logged =>
         /\ LastRow.num_documents = result.num_documents
         /\ LastRow.response_length = StrLen(result.response)

\* a logged query that returned the two chunks of the retry, scored by the
\* reranker
C28_Witness ==
  /\ Returned
  /\ Logged
  /\ evidence_from = "fallback"
  /\ "reranker" \in touched /\ "rerank" \notin failed
  /\ result.num_documents = 2
  /\ LastRow.num_documents = 2

\* ------------------------------------------------------------------- C29

\* C29: a result of query() has the error field exactly when its
\* recommendation is system_error, and a result without error carries the
\* assessment of the documents and scores it returns.
C29_ErrorIffSystemError ==
  Returned =>
    /\ HasError(result)
         <=> (result.quality_assessment.recommendation = "system_error")
    /\ ~HasError(result) =>
         result.quality_assessment =
           assess_response_quality(result.retrieved_documents,
                                   result.confidence_scores)

\* a result without error whose evidence is the retry's, the primary
\* attempt having been assessed as insufficient
C29_Witness ==
  /\ Returned
  /\ ~HasError(result)
  /\ evidence_from = "fallback"
  /\ search_assessment.recommendation = "ask_clarification"
  /\ result.quality_assessment.recommendation = "high_confidence"

\* a result with the error field and the recommendation system_error
C29_WitnessError ==
  /\ Returned
  /\ HasError(result)
  /\ result.quality_assessment.recommendation = "system_error"

\* ------------------------------------------------------------------- C26

\* the entries of a corpus in the batches before batch number b
EntriesBefore(chunks, b) ==
  LET entries == Entries(ValidChunks(chunks))
  IN {entries[k] : k \in 1..Min((b - 1) * BatchSize, Len(entries))}

\* the entries of a corpus in batch number b and after it
EntriesFrom(chunks, b) ==
  LET entries == Entries(ValidChunks(chunks))
  IN {entries[k] : k \in ((b - 1) * BatchSize + 1)..Len(entries)}

\* a run on an empty collection in which the upsert of a batch raised
FirstRunFailedAtBatch ==
  /\ Len(runs) = 1
  /\ runs[1].failed_batch > 0

\* C26, stop and commit: when the upsert of a batch raises in a run on an
\* empty collection, the collection holds the entries of the batches before
\* it and none of that batch or a later one, and the run returns False.
C26_FailedBatchStopsAndKeeps ==
  FirstRunFailedAtBatch =>
    /\ index = EntriesBefore(runs[1].corpus, runs[1].failed_batch)
    /\ index \cap EntriesFrom(runs[1].corpus, runs[1].failed_batch) = {}
    /\ ~runs[1].returned

\* C26 as stated: stop and commit, and what the caller gets from a run whose
\* upsert raised tells how many documents were not processed.
C26_FailureReportsUnprocessed ==
  /\ C26_FailedBatchStopsAndKeeps
  /\ \A i, j \in 1..Len(runs) :
       ( /\ runs[i].failed_batch > 0
         /\ runs[j].failed_batch > 0
         /\ runs[i].returned = runs[j].returned )
       => Cardinality(EntriesFrom(runs[i].corpus, runs[i].failed_batch))
            = Cardinality(EntriesFrom(runs[j].corpus, runs[j].failed_batch))

\* the upsert of the second batch raised: the 100 entries of the first are
\* in the collection
C26_Witness ==
  /\ FirstRunFailedAtBatch
  /\ runs[1].failed_batch = 2
  /\ Cardinality(index) = BatchSize

\* ------------------------------------------------------------------- C25

\* only letters, digits and . _ -, 3 to 63 characters, a letter or digit
\* first and last
IsSanitizedName(name) ==
  /\ \A i \in 1..Len(name) :
       name[i] \in AlnumChars \cup SeparatorChars \cup {"0", "1"}
  /\ Len(name) >= NameMin
  /\ Len(name) <= NameMax
  /\ name[1] \notin SeparatorChars
  /\ name[Len(name)] \notin SeparatorChars

\* the ingestion side opens its collection under a sanitized name
IngestionNameSanitized ==
  call.ingestion.opened => IsSanitizedName(call.ingestion.name)

\* C25 as stated: the name either side opens the collection with is a
\* sanitized name, and for one configured name both sides open the same
\* collection.
C25_BothSidesUseSanitizedName ==
  /\ IngestionNameSanitized
  /\ call.retrieval.opened => IsSanitizedName(call.retrieval.name)
  /\ (call.ingestion.opened /\ call.retrieval.opened) =>
       call.ingestion.name = call.retrieval.name

\* ------------------------------------------------------------------- C27

\* C27 as stated: the collection the queries are embedded through has the
\* embedding function, with the parameters, of the collection the chunks
\* were embedded through.
C27_SameEmbeddingFunction ==
  (call.ingestion.opened /\ call.retrieval.opened) =>
    call.retrieval.embedding_function = call.ingestion.embedding_function

\* ------------------------------------------------------------------- C23

\* the rows of the file that are whole: the cells 1..n of one writerow call,
\* in order, on a line of their own
WholeRows(cells) ==
  {cells[p + 1].row : p \in
     {q \in 0..(Len(cells) - 1) :
        /\ cells[q + 1].k = 1
        /\ q + cells[q + 1].of <= Len(cells)
        /\ \A k \in 1..cells[q + 1].of :
             cells[q + k] = [row |-> cells[q + 1].row, k |-> k,
                             of |-> cells[q + 1].of]
        /\ (q = 0 \/ cells[q].k = cells[q].of)}}

\* the whole rows that queries wrote
QueryRows(cells) == WholeRows(cells) \ {HeaderCells[1].row}

\* instance i's _log_query writes its row in this step
LogWriteStep(i) ==
  /\ procs[i].pc \in {"append", "seeked"}
  /\ procs'[i].pc = "idle"

\* a row write leaves the file with the whole rows it had and the new one
RowWriteAddsWholeRow ==
  \A i \in Instances :
    LogWriteStep(i) =>
      QueryRows(shared_log'.cells) =
        QueryRows(shared_log.cells) \cup {procs[i].row[1].row}

\* C23 as stated: under any interleaving of concurrent _log_query calls,
\* each call's write leaves its row whole in the file beside the whole rows
\* already there; no row is lost to, or mixed with, another's. (Files that
\* a construction emptied are left to C30.)
C23_ConcurrentAppendsSerialized ==
  [][~shared_log'.emptied => RowWriteAddsWholeRow]_vars

\* where the platform's append is one atomic step the row writes are
\* serialized
C23_SerializedWhereAppendIsAtomic ==
  [][shared_log.atomic_append => RowWriteAddsWholeRow]_vars

\* ------------------------------------------------------------------- C30

\* C30 as stated: a query row once written whole to the file is in the
\* file after every later step, construction or query, of every instance
\* sharing the file.
C30_LogAppendOnlyAcrossInstances ==
  [][QueryRows(shared_log.cells) \subseteq QueryRows(shared_log'.cells)]_vars

====
